---- MODULE Spec2Model ----
(***************************************************************************)
(* Model of mylukin/translator (src/unnamed/part_000): the incremental     *)
(* JSON translation pipeline translateJSON = readJSONFile x2, mergeJSON,   *)
(* translateJSONValues (batches handed to translateText), merge back,      *)
(* writeJSONFile.                                                          *)
(*                                                                         *)
(* Strings are sequences of character tokens.  The 23-character text       *)
(* {{NEWLINE_PLACEHOLDER}} is one token PH: it cannot overlap itself, so   *)
(* strings.ReplaceAll on it acts token by token.                           *)
(***************************************************************************)
EXTENDS Integers, Sequences, FiniteSets, TLC

VARIABLES
  inputFile,        \* the input document on disk
  outputFile,       \* the output document on disk
  batchSize,        \* --batchSize
  pc,               \* position of the run inside translateJSON
  run,              \* number of the current run of the tool
  inputJSON,        \* translateJSON: inputJSON
  outputJSON,       \* translateJSON: outputJSON
  mergedJSON,       \* translateJSON: mergedJSON
  untranslatedKeys, \* translateJSON: untranslatedKeys
  toTranslate,      \* translateJSON: toTranslate (data of translateJSONValues)
  translatedData,   \* translateJSONValues: translatedData
  batch,            \* translateJSONValues: batch
  batchKeys,        \* translateJSONValues: batchKeys
  idx,              \* translateJSONValues: position of the range loop in data.keys
  err,              \* the error the run returned, "none" while there is none
  translator,       \* how the Translation Call renders a line it is sent
  calls,            \* history: every translateText invocation, in order
  preOutput,        \* history: the output document when the current run began
  writes            \* history: number of writeJSONFile invocations in this run

vars == <<inputFile, outputFile, batchSize, pc, run, inputJSON, outputJSON,
          mergedJSON, untranslatedKeys, toTranslate, translatedData, batch,
          batchKeys, idx, err, translator, calls, preOutput, writes>>

----------------------------------------------------------------------------
(* Characters and strings *)

NL == "\n"
SP == " "
TAB == "\t"
newlinePlaceholder == "{{NEWLINE_PLACEHOLDER}}"

\* unicode.IsSpace restricted to the characters of the model
Whitespace == {SP, TAB, NL}

Str(c) == <<c>>
EmptyString == <<>>

\* strings.ReplaceAll(s, old, new) for single-token old and new
ReplaceAll(s, old, new) == [i \in 1..Len(s) |-> IF s[i] = old THEN new ELSE s[i]]

\* strings.TrimSpace
TrimSpace(s) ==
  LET keep == {i \in 1..Len(s) : s[i] \notin Whitespace}
  IN  IF keep = {} THEN EmptyString
      ELSE LET lo == CHOOSE i \in keep : \A j \in keep : i <= j
               hi == CHOOSE i \in keep : \A j \in keep : j <= i
           IN  SubSeq(s, lo, hi)

\* cleanTranslation dropping inner whitespace as well
cleanTranslationNoWhitespace(translation) ==
  SelectSeq(translation, LAMBDA c : c \notin Whitespace)

cleanTranslation(translation) == TrimSpace(translation)

\* strings.Split(s, "\n"): always at least one piece, Split("") = [""]
RECURSIVE Split(_)
Split(s) ==
  LET nls == {i \in 1..Len(s) : s[i] = NL}
  IN  IF nls = {} THEN <<s>>
      ELSE LET i == CHOOSE k \in nls : \A j \in nls : k <= j
           IN  <<SubSeq(s, 1, i - 1)>> \o Split(SubSeq(s, i + 1, Len(s)))

\* strings.Join(texts, "\n")
RECURSIVE Join(_)
Join(texts) ==
  IF Len(texts) = 0 THEN EmptyString
  ELSE IF Len(texts) = 1 THEN texts[1]
  ELSE texts[1] \o <<NL>> \o Join(Tail(texts))

----------------------------------------------------------------------------
(* OrderedMap *)

NewOrderedMap == [keys |-> <<>>, values |-> <<>>]

Has(om, key) == key \in DOMAIN om.values

Get(om, key) == om.values[key]

\* Set appending the key whether or not it is present
SetAlwaysAppend(om, key, value) ==
  [keys   |-> Append(om.keys, key),
   values |-> (key :> value) @@ om.values]

Set(om, key, value) ==
  [keys   |-> IF Has(om, key) THEN om.keys ELSE Append(om.keys, key),
   values |-> (key :> value) @@ om.values]

----------------------------------------------------------------------------
(* Files.  A file is absent or holds a document: the sequence of the       *)
(* key/value members of a JSON object, in the order of the text.  top is   *)
(* the kind of the top-level JSON value and types[i] the JSON type of the  *)
(* i-th member's value; value is the text of a string value.  A top-level  *)
(* array is modelled with an even number of elements, the odd ones         *)
(* strings: member i stands for the elements 2i-1 (key) and 2i (value).    *)

Absent ==
  [exists |-> FALSE, readable |-> FALSE, top |-> "object", types |-> <<>>, doc |-> <<>>]

\* a file os.Open fails on for another reason than its absence
Unreadable ==
  [exists |-> TRUE, readable |-> FALSE, top |-> "object", types |-> <<>>, doc |-> <<>>]

\* a text holding the JSON value of kind top with the given members
JSONFile(top, entries, types) ==
  [exists |-> TRUE, readable |-> TRUE, top |-> top, types |-> types, doc |-> entries]

\* a flat JSON object whose values are all strings
Document(entries) ==
  JSONFile("object", entries, [i \in 1..Len(entries) |-> "string"])

\* decoder.Decode(&value) with value a string: a JSON string is stored, a
\* JSON null leaves value as it is (the empty string) and is no error, every
\* other JSON type is an UnmarshalTypeError
DecodesToString(type) == type \in {"string", "null"}

DecodedValue(type, text) == IF type = "string" THEN text ELSE EmptyString

\* readJSONFile, the decoding loop: one Set per member
RECURSIVE decodeMembers(_, _)
decodeMembers(orderedMap, members) ==
  IF Len(members) = 0 THEN orderedMap
  ELSE decodeMembers(Set(orderedMap, members[1].key, members[1].value),
                     Tail(members))

\* readJSONFile: a file that does not exist reads as an empty store, whichever
\* file it is
readJSONFile(file) ==
  IF ~file.exists THEN [err |-> "none", map |-> NewOrderedMap]
  ELSE IF ~file.readable THEN [err |-> "open", map |-> NewOrderedMap]
  ELSE IF file.top = "scalar" THEN [err |-> "error reading JSON end", map |-> NewOrderedMap]
  ELSE IF \E i \in 1..Len(file.doc) : ~DecodesToString(file.types[i])
  THEN [err |-> "error reading JSON value", map |-> NewOrderedMap]
  ELSE [err |-> "none",
        map |-> decodeMembers(NewOrderedMap,
                  [i \in 1..Len(file.doc) |->
                     [key |-> file.doc[i].key,
                      value |-> DecodedValue(file.types[i], file.doc[i].value)]])]

QUOTE == "\""
BS == "\\"

\* the escapes json.Encoder writes inside a string literal (SetEscapeHTML(false))
RECURSIVE Escape(_)
Escape(s) ==
  IF s = <<>> THEN <<>>
  ELSE LET c == Head(s)
       IN  (IF c = QUOTE THEN <<BS, QUOTE>>
            ELSE IF c = BS THEN <<BS, BS>>
            ELSE IF c = NL THEN <<BS, "n">>
            ELSE IF c = TAB THEN <<BS, "t">>
            ELSE <<c>>) \o Escape(Tail(s))

\* encoder.Encode(v): the string literal followed by a newline
Encode(v) == <<QUOTE>> \o Escape(v) \o <<QUOTE, NL>>

\* the literal with the value trimmed instead of the encoded bytes
encodeJSONTrimmedValue(v) == <<QUOTE>> \o Escape(TrimSpace(v)) \o <<QUOTE>>

\* encodeJSON: bytes.TrimSpace of what the encoder wrote
encodeJSON(v) == TrimSpace(Encode(v))

\* the characters of the inside of a string literal, as the decoder yields them
RECURSIVE Unescape(_)
Unescape(t) ==
  IF t = <<>> THEN <<>>
  ELSE IF Head(t) = BS /\ Len(t) >= 2
  THEN <<IF t[2] = "n" THEN NL ELSE IF t[2] = "t" THEN TAB ELSE t[2]>>
         \o Unescape(SubSeq(t, 3, Len(t)))
  ELSE <<Head(t)>> \o Unescape(Tail(t))

\* the string a decoder reads from a string literal
decodeString(literal) == Unescape(SubSeq(literal, 2, Len(literal) - 1))

\* the lines "  key: value" writeJSONFile puts between the braces
writtenMembers(data) ==
  [i \in 1..Len(data.keys) |->
     [key |-> encodeJSON(<<data.keys[i]>>),
      value |-> encodeJSON(Get(data, data.keys[i]))]]

\* writeJSONFile: one member per key of data.keys, in that order; the file
\* holds what a decoder reads from the literals written
writeJSONFile(data) ==
  LET members == writtenMembers(data)
  IN  Document([i \in 1..Len(members) |->
                  [key |-> decodeString(members[i].key)[1],
                   value |-> decodeString(members[i].value)]])

----------------------------------------------------------------------------
(* mergeJSON *)

RECURSIVE mergeLoop(_, _, _, _, _)
mergeLoop(input, output, i, merged, untranslated) ==
  IF i > Len(input.keys) THEN [merged |-> merged, untranslatedKeys |-> untranslated]
  ELSE LET key == input.keys[i]
           inputValue == Get(input, key)
           m1 == Set(merged, key, inputValue)
       IN  IF ~Has(output, key) \/ Get(output, key) = inputValue
           THEN mergeLoop(input, output, i + 1, m1, Append(untranslated, key))
           ELSE mergeLoop(input, output, i + 1,
                          Set(m1, key, Get(output, key)), untranslated)

\* mergeJSON marking only the keys the output lacks
RECURSIVE mergeLoopAbsentOnly(_, _, _, _, _)
mergeLoopAbsentOnly(input, output, i, merged, untranslated) ==
  IF i > Len(input.keys) THEN [merged |-> merged, untranslatedKeys |-> untranslated]
  ELSE LET key == input.keys[i]
           m1 == Set(merged, key, Get(input, key))
       IN  IF ~Has(output, key)
           THEN mergeLoopAbsentOnly(input, output, i + 1, m1, Append(untranslated, key))
           ELSE mergeLoopAbsentOnly(input, output, i + 1,
                                    Set(m1, key, Get(output, key)), untranslated)

mergeJSONAbsentOnly(input, output) ==
  mergeLoopAbsentOnly(input, output, 1, NewOrderedMap, <<>>)

\* mergeJSON that starts from the output store instead of an empty one
mergeJSONOntoOutput(input, output) == mergeLoop(input, output, 1, output, <<>>)

mergeJSON(input, output) == mergeLoop(input, output, 1, NewOrderedMap, <<>>)

\* translateJSON: toTranslate built from untranslatedKeys
RECURSIVE selectKeys(_, _, _)
selectKeys(merged, keys, acc) ==
  IF Len(keys) = 0 THEN acc
  ELSE selectKeys(merged, Tail(keys),
                  IF Has(merged, keys[1])
                  THEN Set(acc, keys[1], Get(merged, keys[1])) ELSE acc)

\* the translated store taken as the merged store
mergeBackTranslatedOnly(merged, translated, keys) == translated

\* translateJSON: translatedData merged back into mergedJSON
RECURSIVE mergeBack(_, _, _)
mergeBack(merged, translated, keys) ==
  IF Len(keys) = 0 THEN merged
  ELSE mergeBack(IF Has(translated, keys[1])
                 THEN Set(merged, keys[1], Get(translated, keys[1])) ELSE merged,
                 translated, Tail(keys))

----------------------------------------------------------------------------
(* translateText *)

\* indices of the texts that are not blank after TrimSpace, ascending
nonEmptyIndices(texts) ==
  LET RECURSIVE scan(_, _)
      scan(i, acc) ==
        IF i > Len(texts) THEN acc
        ELSE scan(i + 1, IF TrimSpace(texts[i]) # EmptyString
                         THEN Append(acc, i) ELSE acc)
  IN  scan(1, <<>>)

nonEmptyTexts(texts) ==
  LET ix == nonEmptyIndices(texts) IN [j \in 1..Len(ix) |-> texts[ix[j]]]

\* the content part of the user prompt
promptContent(texts) == Join(nonEmptyTexts(texts))

\* whether translateText reaches client.CreateChatCompletion
callsAPI(texts) == Len(texts) > 0 /\ Len(nonEmptyTexts(texts)) > 0

\* the j-th translation placed at position j, whatever was blank
placeBackDense(texts, translatedTexts) ==
  [i \in 1..Len(texts) |->
     IF i <= Len(translatedTexts)
     THEN cleanTranslation(cleanTranslation(translatedTexts[i]))
     ELSE texts[i]]

\* result placed back at the original positions
placeBack(texts, translatedTexts) ==
  LET ix == nonEmptyIndices(texts)
      cleaned == [j \in 1..Len(translatedTexts) |-> cleanTranslation(translatedTexts[j])]
  IN  [i \in 1..Len(texts) |->
        IF \E j \in 1..Len(ix) : ix[j] = i
        THEN cleanTranslation(cleaned[CHOOSE j \in 1..Len(ix) : ix[j] = i])
        ELSE texts[i]]

\* translateText accepting an answer of any length and keeping the texts
translateTextLenient(texts, resp) ==
  IF Len(texts) = 0 THEN [err |-> "none", result |-> <<>>]
  ELSE IF Len(nonEmptyTexts(texts)) = 0 THEN [err |-> "none", result |-> texts]
  ELSE IF resp.kind = "error" THEN [err |-> "api", result |-> <<>>]
  ELSE IF resp.kind = "nochoices" THEN [err |-> "panic", result |-> <<>>]
  ELSE LET translatedTexts == Split(resp.content)
       IN  IF Len(translatedTexts) # Len(nonEmptyTexts(texts))
           THEN [err |-> "none", result |-> texts]
           ELSE [err |-> "none", result |-> placeBack(texts, translatedTexts)]

\* translateText trimming the answer before it is split into lines
translateTextTrimsAnswer(texts, resp) ==
  IF Len(texts) = 0 THEN [err |-> "none", result |-> <<>>]
  ELSE IF Len(nonEmptyTexts(texts)) = 0 THEN [err |-> "none", result |-> texts]
  ELSE IF resp.kind = "error" THEN [err |-> "api", result |-> <<>>]
  ELSE IF resp.kind = "nochoices" THEN [err |-> "panic", result |-> <<>>]
  ELSE LET translatedTexts == Split(TrimSpace(resp.content))
       IN  IF Len(translatedTexts) # Len(nonEmptyTexts(texts))
           THEN [err |-> "mismatch", result |-> <<>>]
           ELSE [err |-> "none", result |-> placeBack(texts, translatedTexts)]

\* translateText(texts) given what the API answers: resp.kind is "ok" (with
\* resp.content the message content), "error" or "nochoices"
translateText(texts, resp) ==
  IF Len(texts) = 0 THEN [err |-> "none", result |-> <<>>]
  ELSE IF Len(nonEmptyTexts(texts)) = 0 THEN [err |-> "none", result |-> texts]
  ELSE IF resp.kind = "error" THEN [err |-> "api", result |-> <<>>]
  ELSE IF resp.kind = "nochoices" THEN [err |-> "panic", result |-> <<>>]
  ELSE LET translatedTexts == Split(resp.content)
       IN  IF Len(translatedTexts) # Len(nonEmptyTexts(texts))
           THEN [err |-> "mismatch", result |-> <<>>]
           ELSE [err |-> "none", result |-> placeBack(texts, translatedTexts)]

\* the store loop without the reversal of the placeholder
RECURSIVE storeBatchRaw(_, _, _, _)
storeBatchRaw(data, keys, translatedBatch, i) ==
  IF i > Len(translatedBatch) THEN data
  ELSE storeBatchRaw(Set(data, keys[i], translatedBatch[i]), keys, translatedBatch, i + 1)

\* the store loop leaving out the values translateText passed through
RECURSIVE storeBatchTranslatedOnly(_, _, _, _)
storeBatchTranslatedOnly(data, keys, translatedBatch, i) ==
  IF i > Len(translatedBatch) THEN data
  ELSE storeBatchTranslatedOnly(
         IF TrimSpace(translatedBatch[i]) = EmptyString THEN data
         ELSE Set(data, keys[i], ReplaceAll(translatedBatch[i], newlinePlaceholder, NL)),
         keys, translatedBatch, i + 1)

\* translateJSONValues: the loop storing a translated batch
RECURSIVE storeBatch(_, _, _, _)
storeBatch(data, keys, translatedBatch, i) ==
  IF i > Len(translatedBatch) THEN data
  ELSE storeBatch(Set(data, keys[i],
                      ReplaceAll(translatedBatch[i], newlinePlaceholder, NL)),
                  keys, translatedBatch, i + 1)

----------------------------------------------------------------------------
(* The Translation Call (external): what the API may answer to a request.  *)

\* a rendering that keeps whitespace and the placeholder and changes letters
Translated(line) == [i \in 1..Len(line) |-> IF line[i] = "a" THEN "b" ELSE line[i]]

Render(line) ==
  CASE translator = "identity" -> line
    [] translator = "translate" -> Translated(line)
    [] translator = "pad" -> <<SP>> \o Translated(line) \o <<SP>>

\* the well-formed answer: one rendered line per line sent
Answer(texts) ==
  LET sent == nonEmptyTexts(texts)
  IN  Join([j \in 1..Len(sent) |-> Render(sent[j])])

\* the answers the model draws from: the well-formed one, one with a trailing
\* newline, one with the last line missing, a transport error, and a reply
\* with no choices
Responses(texts) ==
  IF ~callsAPI(texts) THEN {[kind |-> "nocall", content |-> EmptyString]}
  ELSE LET sent == nonEmptyTexts(texts)
           lines == [j \in 1..Len(sent) |-> Render(sent[j])]
       IN  {[kind |-> "ok", content |-> Join(lines)],
            [kind |-> "ok", content |-> Join(lines) \o <<NL>>],
            [kind |-> "ok", content |-> Join(SubSeq(lines, 1, Len(lines) - 1))],
            [kind |-> "error", content |-> EmptyString],
            [kind |-> "nochoices", content |-> EmptyString]}

----------------------------------------------------------------------------
(* Bounds and the inputs drawn at Init *)

MaxEntries == 3      \* members of the input document
MaxBatchSize == 3    \* --batchSize ranges over 1..MaxBatchSize
MaxLen == 3          \* length of the values of SpecValues
MaxBatchEntries == 5 \* entries of the input document of SpecBatch
MaxMembers == 2      \* members of the documents of SpecMalformed

\* the keys of the model, in the order the documents of SpecBatch list them
KeyOrder == <<"k3", "k1", "k5", "k2", "k4", "k6", "k8", "k7">>

Keys == {KeyOrder[i] : i \in 1..MaxEntries}

\* the keys a previous output may hold: two of the input and one of its own
ExistingKeys == {"k1", "k2", "k3"}

Alphabet == {"a", SP, NL, newlinePlaceholder}

SourceValues == {<<"a">>, <<SP>>}

ExistingValues == {<<"a">>, <<"b">>}

\* the values of SpecBatch: two different texts and a blank
BatchValues == {<<"a">>, <<"b", "a">>, <<SP>>}

Translators == {"identity", "translate", "pad"}

\* all strings of at most n characters
Strings(n) == UNION {[1..m -> Alphabet] : m \in 0..n}

\* all documents of at most n members over the given keys and values
Documents(keys, values, n) ==
  LET members == {[key |-> k, value |-> v] : k \in keys, v \in values}
  IN  {Document(d) : d \in UNION {[1..m -> members] : m \in 0..n}}

\* the member sequences listing each of the keys at most once
RECURSIVE FlatDocs(_, _)
FlatDocs(keys, values) ==
  IF keys = {} THEN {<<>>}
  ELSE LET k == CHOOSE x \in keys : TRUE
           rest == FlatDocs(keys \ {k}, values)
       IN  rest \cup {<<[key |-> k, value |-> v]>> \o d : v \in values, d \in rest}

\* the documents of exactly the first n keys of KeyOrder
OrderedDocs(values, n) ==
  {Document([i \in 1..n |-> [key |-> KeyOrder[i], value |-> f[i]]]) :
     f \in [1..n -> values]}

\* the documents of at most n members whose keys are all different
DistinctDocuments(keys, values, n) ==
  {f \in Documents(keys, values, n) :
     \A i, j \in 1..Len(f.doc) : f.doc[i].key = f.doc[j].key => i = j}

InputFiles ==
  {Absent, Unreadable} \cup DistinctDocuments(Keys, SourceValues, MaxEntries)

OutputFiles ==
  {Absent, Unreadable}
    \cup {Document(d) : d \in FlatDocs({"k1", "k3"}, ExistingValues)}

\* documents that may list a key twice
MergeInputFiles == {Absent} \cup Documents(Keys, SourceValues, MaxEntries)

MergeOutputFiles ==
  {Absent} \cup {Document(d) : d \in FlatDocs(ExistingKeys, ExistingValues)}

JSONTypes == {"string", "null", "number", "boolean", "array", "object"}

\* every text of at most n members of any JSON type, as an object or as an
\* array, and a text that is a single scalar
JSONFiles(n) ==
  LET members == {[key |-> k, value |-> <<"a">>] : k \in {"k1", "k2"}}
  IN  {JSONFile("scalar", <<>>, <<>>)}
        \cup UNION {{JSONFile(top, d, ty) :
                       top \in {"object", "array"},
                       d \in [1..m -> members],
                       ty \in [1..m -> JSONTypes]} : m \in 0..n}

\* previous outputs, well-formed and not
MalformedOutputFiles ==
  {Absent,
   Document(<<[key |-> "k1", value |-> <<"b">>]>>),
   JSONFile("object", <<[key |-> "k1", value |-> <<"b">>]>>, <<"null">>),
   JSONFile("object", <<[key |-> "k1", value |-> <<"b">>]>>, <<"number">>),
   JSONFile("array", <<[key |-> "k1", value |-> <<"b">>]>>, <<"string">>)}

\* values with every character the encoder escapes, and with outer whitespace
CodecValues ==
  {EmptyString, <<"a">>, <<QUOTE>>, <<BS>>, <<NL>>, <<BS, "n">>, <<"a", SP>>,
   <<TAB, "a">>}

\* flat string-valued documents of at most n members, keys repeated or not
CodecDocuments(n) ==
  UNION {{Document(d) : d \in [1..m -> [key : {"k1", "k2"}, value : CodecValues]]} :
           m \in 0..n}

----------------------------------------------------------------------------
(* The run *)

Start(in, out, b, t) ==
  /\ inputFile = in
  /\ outputFile = out
  /\ batchSize = b
  /\ translator = t
  /\ pc = "readInput"
  /\ run = "first"
  /\ inputJSON = NewOrderedMap
  /\ outputJSON = NewOrderedMap
  /\ mergedJSON = NewOrderedMap
  /\ untranslatedKeys = <<>>
  /\ toTranslate = NewOrderedMap
  /\ translatedData = NewOrderedMap
  /\ batch = <<>>
  /\ batchKeys = <<>>
  /\ idx = 1
  /\ err = "none"
  /\ calls = <<>>
  /\ preOutput = out
  /\ writes = 0

Init ==
  \E in \in InputFiles, out \in OutputFiles, b \in 1..MaxBatchSize,
     t \in {"identity", "translate"} :
    Start(in, out, b, t)

\* mergeJSON on every pair of documents
InitMerge ==
  \E in \in MergeInputFiles, out \in MergeOutputFiles :
    Start(in, out, 1, "identity")

\* one value of every shape, alone or beside a plain or a blank value
InitValues ==
  \E v \in Strings(MaxLen), w \in SourceValues, b \in 1..MaxBatchSize, t \in Translators :
    \E d \in {<<[key |-> "k1", value |-> v]>>,
               <<[key |-> "k1", value |-> v], [key |-> "k2", value |-> w]>>,
               <<[key |-> "k2", value |-> w], [key |-> "k1", value |-> v]>>} :
      Start(Document(d), Absent, b, t)

\* documents of up to MaxBatchEntries values, blank or not
InitBatch ==
  \E n \in 0..MaxBatchEntries, b \in 1..MaxBatchSize, t \in {"translate", "pad"} :
    \E in \in OrderedDocs(BatchValues, n) :
      Start(in, Absent, b, t)

\* texts of every JSON shape as input and as previous output
InitMalformed ==
  \E in \in JSONFiles(MaxMembers), out \in MalformedOutputFiles :
    Start(in, out, 1, "translate")

\* the input file lists the keys of the output file, each with a value the
\* output file does not hold, so that mergeJSON marks no key and the store
\* written is the store read from the output file
InitCodec ==
  \E out \in CodecDocuments(MaxMembers) :
    Start(Document([i \in 1..Len(out.doc) |->
                      [key |-> out.doc[i].key, value |-> <<"z">>]]),
          out, 1, "identity")

\* translateJSON lines 219-222
ReadInput ==
  /\ pc = "readInput"
  /\ LET r == readJSONFile(inputFile)
     IN  IF r.err # "none"
         THEN /\ pc' = "failed"
              /\ err' = "error reading input file"
              /\ UNCHANGED inputJSON
         ELSE /\ pc' = "readOutput"
              /\ inputJSON' = r.map
              /\ UNCHANGED err
  /\ UNCHANGED <<inputFile, outputFile, batchSize, run, outputJSON, mergedJSON,
                 untranslatedKeys, toTranslate, translatedData, batch, batchKeys,
                 idx, translator, calls, preOutput, writes>>

\* translateJSON lines 224-227
ReadOutput ==
  /\ pc = "readOutput"
  /\ LET r == readJSONFile(outputFile)
     IN  IF r.err # "none"
         THEN /\ pc' = "failed"
              /\ err' = "error reading output file"
              /\ UNCHANGED outputJSON
         ELSE /\ pc' = "merge"
              /\ outputJSON' = r.map
              /\ UNCHANGED err
  /\ UNCHANGED <<inputFile, outputFile, batchSize, run, inputJSON, mergedJSON,
                 untranslatedKeys, toTranslate, translatedData, batch, batchKeys,
                 idx, translator, calls, preOutput, writes>>

\* translateJSON lines 229-239 and the set-up of translateJSONValues, 380-382
\* Merge handing the whole merged store to translateJSONValues when no key
\* is marked
MergeTranslatesAllWhenNoneMarked ==
  /\ pc = "merge"
  /\ LET m == mergeJSON(inputJSON, outputJSON)
     IN  /\ mergedJSON' = m.merged
         /\ untranslatedKeys' = m.untranslatedKeys
         /\ toTranslate' = IF Len(m.untranslatedKeys) > 0
                           THEN selectKeys(m.merged, m.untranslatedKeys, NewOrderedMap)
                           ELSE m.merged
         /\ pc' = "loop"
  /\ translatedData' = NewOrderedMap
  /\ batch' = <<>>
  /\ batchKeys' = <<>>
  /\ idx' = 1
  /\ UNCHANGED <<inputFile, outputFile, batchSize, run, inputJSON, outputJSON,
                 err, translator, calls, preOutput, writes>>

Merge ==
  /\ pc = "merge"
  /\ LET m == mergeJSON(inputJSON, outputJSON)
     IN  /\ mergedJSON' = m.merged
         /\ untranslatedKeys' = m.untranslatedKeys
         /\ IF Len(m.untranslatedKeys) > 0
            THEN /\ toTranslate' = selectKeys(m.merged, m.untranslatedKeys, NewOrderedMap)
                 /\ pc' = "loop"
            ELSE /\ toTranslate' = NewOrderedMap
                 /\ pc' = "write"
  /\ translatedData' = NewOrderedMap
  /\ batch' = <<>>
  /\ batchKeys' = <<>>
  /\ idx' = 1
  /\ UNCHANGED <<inputFile, outputFile, batchSize, run, inputJSON, outputJSON,
                 err, translator, calls, preOutput, writes>>

\* translateJSONValues lines 384-390: one iteration of the range loop up to
\* the test of the batch length
FillBatch ==
  /\ pc = "loop"
  /\ idx <= Len(toTranslate.keys)
  /\ LET key == toTranslate.keys[idx]
         value == ReplaceAll(Get(toTranslate, key), NL, newlinePlaceholder)
     IN  /\ batch' = Append(batch, value)
         /\ batchKeys' = Append(batchKeys, key)
         /\ pc' = IF Len(batch) + 1 = batchSize THEN "call" ELSE "loop"
  /\ idx' = idx + 1
  /\ UNCHANGED <<inputFile, outputFile, batchSize, run, inputJSON, outputJSON,
                 mergedJSON, untranslatedKeys, toTranslate, translatedData, err,
                 translator, calls, preOutput, writes>>

\* translateJSONValues lines 402-405 and 416: the loop is over
LoopEnd ==
  /\ pc = "loop"
  /\ idx > Len(toTranslate.keys)
  /\ pc' = IF Len(batch) > 0 THEN "callFinal" ELSE "mergeBack"
  /\ UNCHANGED <<inputFile, outputFile, batchSize, run, inputJSON, outputJSON,
                 mergedJSON, untranslatedKeys, toTranslate, translatedData, batch,
                 batchKeys, idx, err, translator, calls, preOutput, writes>>

\* TranslateBatch without batch = batch[:0] and batchKeys = batchKeys[:0]
TranslateBatchNoReset ==
  /\ pc \in {"call", "callFinal"}
  /\ \E resp \in Responses(batch) :
       LET r == translateText(batch, resp)
       IN  /\ calls' = Append(calls, [run |-> run, keys |-> batchKeys, texts |-> batch,
                                      resp |-> resp, err |-> r.err])
           /\ IF r.err # "none"
              THEN /\ pc' = "failed"
                   /\ err' = r.err
                   /\ UNCHANGED translatedData
              ELSE /\ translatedData' = storeBatch(translatedData, batchKeys, r.result, 1)
                   /\ UNCHANGED err
                   /\ pc' = IF pc = "call" THEN "loop" ELSE "mergeBack"
  /\ UNCHANGED <<inputFile, outputFile, batchSize, run, inputJSON, outputJSON,
                 mergedJSON, untranslatedKeys, toTranslate, idx, translator,
                 preOutput, writes, batch, batchKeys>>

\* TranslateBatch without batchKeys = batchKeys[:0]: the key buffer keeps the
\* keys of the batches before
TranslateBatchKeysLeftOver ==
  /\ pc \in {"call", "callFinal"}
  /\ \E resp \in Responses(batch) :
       LET r == translateText(batch, resp)
       IN  /\ calls' = Append(calls, [run |-> run, keys |-> batchKeys, texts |-> batch,
                                      resp |-> resp, err |-> r.err])
           /\ IF r.err # "none"
              THEN /\ pc' = "failed"
                   /\ err' = r.err
                   /\ UNCHANGED <<translatedData, batch>>
              ELSE /\ translatedData' = storeBatch(translatedData, batchKeys, r.result, 1)
                   /\ UNCHANGED err
                   /\ IF pc = "call"
                      THEN /\ batch' = <<>>
                           /\ pc' = "loop"
                      ELSE /\ UNCHANGED batch
                           /\ pc' = "mergeBack"
  /\ UNCHANGED <<inputFile, outputFile, batchSize, run, inputJSON, outputJSON,
                 mergedJSON, untranslatedKeys, toTranslate, idx, translator,
                 preOutput, writes, batchKeys>>

\* TranslateBatch going on to the next batch after a failed call
TranslateBatchGoesOn ==
  /\ pc \in {"call", "callFinal"}
  /\ \E resp \in Responses(batch) :
       LET r == translateText(batch, resp)
       IN  /\ calls' = Append(calls, [run |-> run, keys |-> batchKeys, texts |-> batch,
                                      resp |-> resp, err |-> r.err])
           /\ IF r.err # "none"
              THEN /\ err' = r.err
                   /\ UNCHANGED translatedData
              ELSE /\ translatedData' = storeBatch(translatedData, batchKeys, r.result, 1)
                   /\ UNCHANGED err
           /\ IF pc = "call"
              THEN /\ batch' = <<>>
                   /\ batchKeys' = <<>>
                   /\ pc' = "loop"
              ELSE /\ UNCHANGED <<batch, batchKeys>>
                   /\ pc' = "mergeBack"
  /\ UNCHANGED <<inputFile, outputFile, batchSize, run, inputJSON, outputJSON,
                 mergedJSON, untranslatedKeys, toTranslate, idx, translator,
                 preOutput, writes>>

\* translateJSONValues lines 391-400 (a full batch) and 406-413 (the final one)
TranslateBatch ==
  /\ pc \in {"call", "callFinal"}
  /\ \E resp \in Responses(batch) :
       LET r == translateText(batch, resp)
       IN  /\ calls' = Append(calls, [run |-> run, keys |-> batchKeys, texts |-> batch,
                                      resp |-> resp, err |-> r.err])
           /\ IF r.err # "none"
              THEN /\ pc' = "failed"
                   /\ err' = r.err
                   /\ UNCHANGED <<translatedData, batch, batchKeys>>
              ELSE /\ translatedData' = storeBatch(translatedData, batchKeys, r.result, 1)
                   /\ UNCHANGED err
                   /\ IF pc = "call"
                      THEN /\ batch' = <<>>
                           /\ batchKeys' = <<>>
                           /\ pc' = "loop"
                      ELSE /\ UNCHANGED <<batch, batchKeys>>
                           /\ pc' = "mergeBack"
  /\ UNCHANGED <<inputFile, outputFile, batchSize, run, inputJSON, outputJSON,
                 mergedJSON, untranslatedKeys, toTranslate, idx, translator,
                 preOutput, writes>>

\* translateJSON lines 246-250
MergeBack ==
  /\ pc = "mergeBack"
  /\ mergedJSON' = mergeBack(mergedJSON, translatedData, translatedData.keys)
  /\ pc' = "write"
  /\ UNCHANGED <<inputFile, outputFile, batchSize, run, inputJSON, outputJSON,
                 untranslatedKeys, toTranslate, translatedData, batch, batchKeys,
                 idx, err, translator, calls, preOutput, writes>>

\* translateJSON lines 253-259
Write ==
  /\ pc = "write"
  /\ outputFile' = writeJSONFile(mergedJSON)
  /\ writes' = writes + 1
  /\ pc' = "done"
  /\ UNCHANGED <<inputFile, batchSize, run, inputJSON, outputJSON, mergedJSON,
                 untranslatedKeys, toTranslate, translatedData, batch, batchKeys,
                 idx, err, translator, calls, preOutput>>

\* the tool is run again on the same input file and the output it wrote
Rerun ==
  /\ pc = "done"
  /\ run = "first"
  /\ run' = "second"
  /\ pc' = "readInput"
  /\ inputJSON' = NewOrderedMap
  /\ outputJSON' = NewOrderedMap
  /\ mergedJSON' = NewOrderedMap
  /\ untranslatedKeys' = <<>>
  /\ toTranslate' = NewOrderedMap
  /\ translatedData' = NewOrderedMap
  /\ batch' = <<>>
  /\ batchKeys' = <<>>
  /\ idx' = 1
  /\ preOutput' = outputFile
  /\ writes' = 0
  /\ UNCHANGED <<inputFile, outputFile, batchSize, err, translator, calls>>

Next ==
  \/ ReadInput
  \/ ReadOutput
  \/ Merge
  \/ FillBatch
  \/ LoopEnd
  \/ TranslateBatch
  \/ MergeBack
  \/ Write
  \/ Rerun

\* a single run
NextOnce ==
  \/ ReadInput
  \/ ReadOutput
  \/ Merge
  \/ FillBatch
  \/ LoopEnd
  \/ TranslateBatch
  \/ MergeBack
  \/ Write

\* the run up to mergeJSON
NextMerge ==
  \/ ReadInput
  \/ ReadOutput
  \/ Merge

Spec == Init /\ [][Next]_vars

SpecMerge == InitMerge /\ [][NextMerge]_vars

\* a run that has nothing to translate: read, read, merge, write
NextCodec ==
  \/ ReadInput
  \/ ReadOutput
  \/ Merge
  \/ Write

SpecCodec == InitCodec /\ [][NextCodec]_vars

SpecValues == InitValues /\ [][Next]_vars

SpecBatch == InitBatch /\ [][NextOnce]_vars

SpecMalformed == InitMalformed /\ [][NextOnce]_vars

----------------------------------------------------------------------------
(* Helpers of the properties *)

InSeq(x, seq) == \E i \in 1..Len(seq) : seq[i] = x

NoDuplicates(seq) == \A i, j \in 1..Len(seq) : seq[i] = seq[j] => i = j

\* the position of x in seq, 0 when it is not there
IndexOf(x, seq) ==
  IF InSeq(x, seq) THEN CHOOSE i \in 1..Len(seq) : seq[i] = x ELSE 0

\* sub keeps the relative order seq gives its elements
InOrderOf(sub, seq) ==
  \A i, j \in 1..Len(sub) : i < j => IndexOf(sub[i], seq) < IndexOf(sub[j], seq)

\* mergeJSON has just returned
Merged == pc \in {"loop", "write"} /\ idx = 1 /\ Len(batch) = 0 /\ err = "none"
            /\ translatedData = NewOrderedMap

\* the key counts as untranslated: no previous value, or the source value itself
AbsentOrSame(k) == ~Has(outputJSON, k) \/ Get(outputJSON, k) = Get(inputJSON, k)

----------------------------------------------------------------------------
(* Merge Engine *)

\* C4: merge precedence. After mergeJSON a source key is in the
\* needs-translation list, with the source value in the merged store, exactly
\* when the existing store lacks the key or holds the source value for it;
\* otherwise the merged store holds the existing value and the key is not
\* listed. The list is in source order and has no duplicates.
C4_MergePrecedence ==
  Merged =>
    /\ \A k \in DOMAIN inputJSON.values :
         /\ (InSeq(k, untranslatedKeys) /\ Get(mergedJSON, k) = Get(inputJSON, k))
              <=> AbsentOrSame(k)
         /\ ~AbsentOrSame(k) =>
              Get(mergedJSON, k) = Get(outputJSON, k) /\ ~InSeq(k, untranslatedKeys)
    /\ NoDuplicates(untranslatedKeys)
    /\ InOrderOf(untranslatedKeys, inputJSON.keys)
    /\ \A i \in 1..Len(untranslatedKeys) : InSeq(untranslatedKeys[i], inputJSON.keys)

\* a merge with a key kept for its differing translation, a key marked for its
\* identical copy and a key marked for its absence
C4_Witness ==
  /\ Merged
  /\ \E k1, k2, k3 \in DOMAIN inputJSON.values :
       /\ Has(outputJSON, k1) /\ Get(outputJSON, k1) # Get(inputJSON, k1)
       /\ Has(outputJSON, k2) /\ Get(outputJSON, k2) = Get(inputJSON, k2)
       /\ ~Has(outputJSON, k3)
       /\ IndexOf(k3, inputJSON.keys) < IndexOf(k2, inputJSON.keys)

\* C5: merge key set. The merged store has exactly the key sequence of the
\* source; a key only the existing store holds is neither in the merged store
\* nor in the needs-translation list.
C5_MergeKeySet ==
  Merged =>
    /\ mergedJSON.keys = inputJSON.keys
    /\ DOMAIN mergedJSON.values = DOMAIN inputJSON.values
    /\ \A k \in DOMAIN outputJSON.values \ DOMAIN inputJSON.values :
         ~Has(mergedJSON, k) /\ ~InSeq(k, mergedJSON.keys) /\ ~InSeq(k, untranslatedKeys)

\* a merge where the existing store holds a key the source has dropped, and
\* the source lists its keys in another order than the existing store
C5_Witness ==
  /\ Merged
  /\ Len(inputJSON.keys) >= 2
  /\ \E k \in DOMAIN outputJSON.values : ~Has(inputJSON, k)
  /\ \E k \in DOMAIN outputJSON.values : Has(inputJSON, k)
  /\ \E i, j \in 1..Len(inputJSON.keys) :
       /\ i < j
       /\ IndexOf(inputJSON.keys[j], outputJSON.keys) > 0
       /\ IndexOf(inputJSON.keys[j], outputJSON.keys)
            < IndexOf(inputJSON.keys[i], outputJSON.keys)

----------------------------------------------------------------------------
(* The run as a whole *)

\* the translateText invocations of the current run
CallsOfRun(r) == SelectSeq(calls, LAMBDA c : c.run = r)

\* the Translation Call of c failed: a transport error, a reply without
\* choices, or a line count other than the number of texts sent
CallFailed(c) ==
  /\ callsAPI(c.texts)
  /\ \/ c.resp.kind \in {"error", "nochoices"}
     \/ Len(Split(c.resp.content)) # Len(nonEmptyTexts(c.texts))

\* the keys whose values c sent to the Translation Call
SubmittedKeys(c) ==
  IF callsAPI(c.texts)
  THEN {c.keys[i] : i \in {j \in 1..Len(c.texts) : TrimSpace(c.texts[j]) # EmptyString}}
  ELSE {}

SubmittedInRun(r) ==
  UNION {SubmittedKeys(calls[i]) : i \in {j \in 1..Len(calls) : calls[j].run = r}}

\* the keys handed to translateText in run r, blank or not
HandedInRun(r) ==
  UNION {{calls[i].keys[n] : n \in 1..Len(calls[i].keys)} :
           i \in {j \in 1..Len(calls) : calls[j].run = r}}

\* the store a document decodes to
StoreOf(file) == readJSONFile(file).map

\* C1 as stated: after a successful first run and with the source unchanged,
\* the second run's mergeJSON returns an empty untranslated-key list, and no
\* key is submitted to the Translation Call in both runs.
C1_SecondRunHasNothingToTranslate ==
  /\ (run = "second" /\ Merged) => Len(untranslatedKeys) = 0
  /\ SubmittedInRun("first") \cap SubmittedInRun("second") = {}

\* C1 amended: in the second run the untranslated-key list holds exactly the
\* source keys whose value in the document the first run wrote equals the
\* source value (a blank value, or a translation that came back as the source
\* text); it is part of the first run's list, and a key whose written value
\* differs from its source value is not submitted again.
C1_SecondRunRetranslatesUnchangedValues ==
  /\ (run = "second" /\ pc # "readInput") => preOutput.exists
  /\ (run = "second" /\ Merged) =>
       /\ \A k \in DOMAIN inputJSON.values :
            /\ Has(StoreOf(preOutput), k)
            /\ InSeq(k, untranslatedKeys)
                 <=> Get(StoreOf(preOutput), k) = Get(inputJSON, k)
       /\ \A i \in 1..Len(untranslatedKeys) :
            untranslatedKeys[i] \in HandedInRun("first")
  /\ run = "second" =>
       \A k \in SubmittedInRun("second") :
         Get(StoreOf(preOutput), k) = Get(StoreOf(inputFile), k)

\* a second run that lists one key again and leaves a key translated by the
\* first run alone
C1_Witness ==
  /\ run = "second"
  /\ Merged
  /\ Len(untranslatedKeys) > 0
  /\ \E k \in SubmittedInRun("first") : ~InSeq(k, untranslatedKeys)

\* C2: all-or-nothing output. While a run has not finished, and when it has
\* failed, writeJSONFile has not been invoked and the output file holds its
\* pre-run content; a finished run has written once, no Translation Call of
\* the run had failed or returned a mismatching line count, and the file holds
\* the complete merged document: every source key, each untranslated key with
\* the value translateJSONValues returned for it.
C2_AllOrNothing ==
  /\ pc # "done" => writes = 0 /\ outputFile = preOutput
  /\ (\E i \in 1..Len(calls) : calls[i].run = run /\ CallFailed(calls[i]))
       => pc = "failed" /\ writes = 0 /\ outputFile = preOutput
  /\ pc = "done" =>
       /\ writes = 1
       /\ \A i \in 1..Len(calls) : calls[i].run = run => ~CallFailed(calls[i])
       /\ outputFile = writeJSONFile(mergedJSON)
       /\ mergedJSON.keys = inputJSON.keys
       /\ \A i \in 1..Len(untranslatedKeys) :
            /\ Has(translatedData, untranslatedKeys[i])
            /\ Get(StoreOf(outputFile), untranslatedKeys[i])
                 = Get(translatedData, untranslatedKeys[i])

\* the Translation Call of a middle batch fails: one batch is stored, entries
\* are still waiting, and there is an output file to lose
C2_Witness ==
  /\ pc = "failed"
  /\ Len(CallsOfRun(run)) = 2
  /\ CallFailed(calls[Len(calls)])
  /\ Len(translatedData.keys) > 0
  /\ idx <= Len(toTranslate.keys)
  /\ preOutput.exists /\ Len(preOutput.doc) > 0

\* C10 as stated: with no input file the run ends with an error before any
\* merge, Translation Call or write, and the output file is neither created
\* nor overwritten.
C10_AbsentInputIsAnError ==
  ~inputFile.exists =>
    /\ pc \in {"readInput", "failed"}
    /\ writes = 0
    /\ outputFile = preOutput

----------------------------------------------------------------------------
(* Batch Translator *)

Min(a, b) == IF a <= b THEN a ELSE b

Ceil(n, b) == (n + b - 1) \div b

\* the value a text is stored as: trimmed, placeholder reversed
Stored(line) == ReplaceAll(TrimSpace(line), newlinePlaceholder, NL)

\* translateJSONValues has returned its store
Returned == pc = "mergeBack"

\* every Translation Call of the run answered with exactly the text it was sent
IdentityStub ==
  \A i \in 1..Len(calls) :
    (calls[i].run = run /\ callsAPI(calls[i].texts)) =>
      calls[i].resp.kind = "ok" /\ calls[i].resp.content = promptContent(calls[i].texts)

\* C3: alignment. Every batch given to translateText either ends in an
\* error, or the answer has as many lines as non-blank values were sent and
\* the store holds, under the key of the i-th non-blank value of the batch,
\* the i-th returned line (trimmed, placeholder reversed), and under the key
\* of each value not sent that value itself.
C3_Alignment ==
  \A n \in 1..Len(calls) :
    LET c == calls[n]
        ix == nonEmptyIndices(c.texts)
        lines == Split(c.resp.content)
    IN  (c.run = run /\ callsAPI(c.texts)) =>
          \/ c.err # "none" /\ pc = "failed" /\ n = Len(calls)
          \/ /\ c.err = "none"
             /\ Len(lines) = Len(ix)
             /\ \A i \in 1..Len(ix) :
                  Get(translatedData, c.keys[ix[i]]) = Stored(lines[i])
             /\ \A j \in 1..Len(c.texts) :
                  ~InSeq(j, ix) =>
                    Get(translatedData, c.keys[j]) = Get(toTranslate, c.keys[j])

\* an accepted batch whose first value is blank and whose two non-blank
\* values came back as different lines
C3_Witness ==
  \E n \in 1..Len(calls) :
    LET c == calls[n]
        ix == nonEmptyIndices(c.texts)
    IN  /\ c.run = run /\ c.err = "none" /\ callsAPI(c.texts)
        /\ Len(ix) = 2 /\ ix[1] = 2
        /\ Get(translatedData, c.keys[ix[1]]) # Get(translatedData, c.keys[ix[2]])
        /\ Get(translatedData, c.keys[ix[1]]) # Get(toTranslate, c.keys[ix[1]])

\* C6 as stated: a value of whitespace only (spaces, tabs, newlines, or
\* nothing) handed to translateJSONValues is not part of the text sent to the
\* Translation Call, and on success the store maps its key to that value.
C6_BlankPassthrough ==
  \A n \in 1..Len(calls) :
    LET c == calls[n]
    IN  c.run = run =>
          \A j \in 1..Len(c.keys) :
            LET v == Get(toTranslate, c.keys[j])
            IN  TrimSpace(v) = EmptyString =>
                  /\ c.keys[j] \notin SubmittedKeys(c)
                  /\ c.err = "none" => Get(translatedData, c.keys[j]) = v

\* the positions of the newlines of a value
Newlines(v) == {i \in 1..Len(v) : v[i] = NL}

\* C7 as stated: with a Translation Call that returns exactly what it was
\* sent, every value that contains a newline is stored with every newline at
\* the position it has in the original value.
C7_NewlinesKeepPosition ==
  (Returned /\ IdentityStub) =>
    \A k \in DOMAIN toTranslate.values :
      Newlines(Get(toTranslate, k)) # {} =>
        /\ Has(translatedData, k)
        /\ Newlines(Get(translatedData, k)) = Newlines(Get(toTranslate, k))

\* the value starts with whitespace that is no newline
LeadingBlank(v) == Len(v) > 0 /\ v[1] \in Whitespace \ {NL}

\* C7 amended: with a Translation Call that returns exactly what it was sent,
\* every value that contains a newline, does not start with a space or a tab
\* and does not contain the placeholder text is stored with every newline at
\* the position it has in the original value, and with no other newline.
C7_NewlinesKeepPositionUnlessLeadingBlank ==
  (Returned /\ IdentityStub) =>
    \A k \in DOMAIN toTranslate.values :
      LET v == Get(toTranslate, k)
      IN  (Newlines(v) # {} /\ ~LeadingBlank(v) /\ ~InSeq(newlinePlaceholder, v)) =>
            /\ Has(translatedData, k)
            /\ Newlines(Get(translatedData, k)) = Newlines(v)

\* a value with a newline between two letters, and one starting with a
\* newline, stored after an identity answer
C7_Witness ==
  /\ Returned /\ IdentityStub
  /\ \E k \in DOMAIN toTranslate.values :
       LET v == Get(toTranslate, k)
       IN  /\ Len(v) = 3 /\ v[2] = NL /\ v[1] = "a" /\ v[3] = "a"
           /\ Get(translatedData, k) = v
           /\ \E c \in {calls[i] : i \in 1..Len(calls)} : k \in SubmittedKeys(c)

\* C8: batch partition. The k-th group handed to translateText holds the
\* entries (k-1)*b+1 .. min(k*b, n) of the store in key order, with their
\* protected values; no group is empty, every group but the last has b
\* entries, and a run of translateJSONValues that returns has handed over
\* exactly ceil(n/b) groups.
C8_BatchPartition ==
  LET cs == CallsOfRun(run)
      n == Len(toTranslate.keys)
      b == batchSize
  IN  /\ \A k \in 1..Len(cs) :
           /\ cs[k].keys = SubSeq(toTranslate.keys, (k - 1) * b + 1, Min(k * b, n))
           /\ Len(cs[k].keys) >= 1
           /\ Len(cs[k].texts) = Len(cs[k].keys)
           /\ \A i \in 1..Len(cs[k].keys) :
                cs[k].texts[i] =
                  ReplaceAll(Get(toTranslate, cs[k].keys[i]), NL, newlinePlaceholder)
           /\ k < Ceil(n, b) => Len(cs[k].keys) = b
      /\ Len(cs) <= Ceil(n, b)
      /\ Returned => Len(cs) = Ceil(n, b)

\* five entries with batch size 2: groups of 2, 2 and 1
C8_Witness ==
  LET cs == CallsOfRun(run)
  IN  /\ Returned
      /\ Len(toTranslate.keys) = 5 /\ batchSize = 2
      /\ Len(cs) = 3
      /\ Len(cs[1].keys) = 2 /\ Len(cs[2].keys) = 2 /\ Len(cs[3].keys) = 1

\* C9: Batch Translator output. Whenever translateJSONValues returns without
\* error the key sequence of the returned store is the key sequence of the
\* input store.
C9_OutputKeys ==
  Returned =>
    /\ translatedData.keys = toTranslate.keys
    /\ DOMAIN translatedData.values = DOMAIN toTranslate.values

\* a returned store of several batches, one of them all blank, one mixed
C9_Witness ==
  LET cs == CallsOfRun(run)
  IN  /\ Returned
      /\ Len(toTranslate.keys) >= 4
      /\ \E i, j \in 1..Len(cs) :
           /\ ~callsAPI(cs[i].texts)
           /\ callsAPI(cs[j].texts)
           /\ Len(nonEmptyIndices(cs[j].texts)) < Len(cs[j].texts)

----------------------------------------------------------------------------
(* JSON Codec *)

\* the text is not a JSON object whose every value is a string
Malformed(file) ==
  /\ file.exists /\ file.readable
  /\ file.top # "object" \/ \E i \in 1..Len(file.types) : file.types[i] # "string"

\* C11 as stated: whenever a document is not a JSON object whose every value
\* is a string (a number, boolean, null, array or object as a value, or an
\* array at the top level), readJSONFile returns an error and the run aborts
\* with no Translation Call and without writing output.
C11_MalformedDocumentAborts ==
  /\ Malformed(inputFile) =>
       /\ pc \in {"readInput", "failed"}
       /\ calls = <<>> /\ writes = 0 /\ outputFile = preOutput
  /\ Malformed(preOutput) =>
       /\ pc \in {"readInput", "readOutput", "failed"}
       /\ calls = <<>> /\ writes = 0 /\ outputFile = preOutput

\* the store read from the output file was written with no modification
WrittenUnmodified ==
  /\ pc = "done" /\ calls = <<>>
  /\ mergedJSON = outputJSON

----------------------------------------------------------------------------
(* OrderedMap *)

\* the store after the first n Set operations of ops on a new store
AfterSets(ops, n) == decodeMembers(NewOrderedMap, SubSeq(ops, 1, n))

\* the positions among the first n operations that set key
SetsOfKey(ops, n, key) == {i \in 1..n : ops[i].key = key}

FirstOf(S) == CHOOSE i \in S : \A j \in S : i <= j

LastOf(S) == CHOOSE i \in S : \A j \in S : j <= i

\* C13: after any sequence of Set operations on a new store the key sequence
\* has no duplicates, its keys are the keys of the value mapping, they are in
\* the order of their first Set, and Get returns the value of the most recent
\* Set of each key; a Set of a key already present leaves the key sequence
\* and every other key's value unchanged.  The sequence of operations is the
\* one readJSONFile performs for the members of the input document.
C13_OrderedMapInvariant ==
  (pc # "readInput" /\ inputFile.exists) =>
    LET ops == inputFile.doc
    IN  /\ inputJSON = AfterSets(ops, Len(ops))
        /\ \A n \in 0..Len(ops) :
             LET om == AfterSets(ops, n)
             IN  /\ NoDuplicates(om.keys)
                 /\ {om.keys[i] : i \in 1..Len(om.keys)} = DOMAIN om.values
                 /\ DOMAIN om.values = {ops[i].key : i \in 1..n}
                 /\ \A i, j \in 1..Len(om.keys) :
                      i < j => FirstOf(SetsOfKey(ops, n, om.keys[i]))
                                 < FirstOf(SetsOfKey(ops, n, om.keys[j]))
                 /\ \A k \in DOMAIN om.values :
                      Get(om, k) = ops[LastOf(SetsOfKey(ops, n, k))].value
        /\ \A n \in 1..Len(ops) :
             LET before == AfterSets(ops, n - 1)
                 after == AfterSets(ops, n)
             IN  Has(before, ops[n].key) =>
                   /\ after.keys = before.keys
                   /\ \A k \in DOMAIN before.values \ {ops[n].key} :
                        Get(after, k) = Get(before, k)

\* a key set twice with different values, another key set in between
C13_Witness ==
  /\ pc = "readOutput"
  /\ Len(inputFile.doc) = 3
  /\ inputFile.doc[1].key = inputFile.doc[3].key
  /\ inputFile.doc[1].key # inputFile.doc[2].key
  /\ inputFile.doc[1].value # inputFile.doc[3].value
  /\ Len(inputJSON.keys) = 2
  /\ Get(inputJSON, inputFile.doc[1].key) = inputFile.doc[3].value

----------------------------------------------------------------------------
(* Batches in sequence *)

\* the store after the results of the first n calls of cs have been stored
RECURSIVE StoreAfter(_, _)
StoreAfter(cs, n) ==
  IF n = 0 THEN NewOrderedMap
  ELSE storeBatch(StoreAfter(cs, n - 1), cs[n].keys,
                  translateText(cs[n].texts, cs[n].resp).result, 1)

\* translateJSONValues is at work or has returned its store
Translating == pc \in {"loop", "call", "callFinal", "mergeBack"}

\* C14: batches go to translateText one after the other. A batch is called
\* only when every earlier batch of the run has returned without error and
\* its results are in the store; once a call fails it is the last call of the
\* run, translateJSONValues ends with the error, and nothing of its store
\* reaches the merged store.
C14_SequentialBatches ==
  LET cs == CallsOfRun(run)
  IN  /\ \A k \in 1..Len(cs) - 1 : cs[k].err = "none"
      /\ Translating =>
           /\ \A k \in 1..Len(cs) : cs[k].err = "none"
           /\ translatedData = StoreAfter(cs, Len(cs))
      /\ (\E k \in 1..Len(cs) : cs[k].err # "none") =>
           /\ pc = "failed"
           /\ err = cs[Len(cs)].err
           /\ mergedJSON = mergeJSON(inputJSON, outputJSON).merged
           /\ outputFile = preOutput

\* two batches stored, the third one failed
C14_Witness ==
  LET cs == CallsOfRun(run)
  IN  /\ Len(cs) = 3
      /\ callsAPI(cs[1].texts) /\ callsAPI(cs[2].texts)
      /\ cs[3].err = "mismatch"
      /\ pc = "failed"
      /\ Len(toTranslate.keys) > 3 * batchSize

\* three batches called and stored in turn
C14_WitnessStored ==
  LET cs == CallsOfRun(run)
  IN  /\ Len(cs) = 3
      /\ \A k \in 1..3 : callsAPI(cs[k].texts)
      /\ pc = "mergeBack"
      /\ translatedData.keys = toTranslate.keys

----------------------------------------------------------------------------
(* Merge-back *)

\* C15: once translateJSON has merged the translated store back (or had
\* nothing to translate), the merged store lists the source's keys in the
\* source's order, every key mergeJSON did not mark holds the existing output
\* value, every marked key holds the value translateJSONValues returned for
\* it, and the document written is this store.
C15_MergeBack ==
  pc \in {"write", "done"} =>
    /\ mergedJSON.keys = inputJSON.keys
    /\ \A i \in 1..Len(inputJSON.keys) :
         LET k == inputJSON.keys[i]
         IN  IF InSeq(k, untranslatedKeys)
             THEN /\ Has(translatedData, k)
                  /\ Get(mergedJSON, k) = Get(translatedData, k)
             ELSE /\ Has(outputJSON, k)
                  /\ Get(mergedJSON, k) = Get(outputJSON, k)
    /\ pc = "done" => outputFile = writeJSONFile(mergedJSON)

\* a written store with a translated value before a kept one
C15_Witness ==
  /\ pc = "done"
  /\ Len(inputJSON.keys) >= 2
  /\ InSeq(inputJSON.keys[1], untranslatedKeys)
  /\ ~InSeq(inputJSON.keys[2], untranslatedKeys)
  /\ Get(mergedJSON, inputJSON.keys[1]) # Get(inputJSON, inputJSON.keys[1])
  /\ Get(mergedJSON, inputJSON.keys[2]) # Get(inputJSON, inputJSON.keys[2])

----------------------------------------------------------------------------
(* Reuse of the batch buffers.  batch and batchKeys are cut to length 0     *)
(* after each full batch and filled again; the values are Go strings, which *)
(* Set copies into the store before the buffers are cut.                     *)

\* the keys of the batch that follows n batches of the run
KeysOfBatch(n) ==
  SubSeq(toTranslate.keys, n * batchSize + 1,
         Min((n + 1) * batchSize, Len(toTranslate.keys)))

\* a step of translateJSONValues that leaves every stored value as it is and,
\* when it stores the results of a batch, stores the i-th result under the
\* i-th key of that batch, a key that had no value before
StoresOnlyOwnBatch ==
  /\ \A k \in DOMAIN translatedData.values :
       Has(translatedData', k) /\ Get(translatedData', k) = Get(translatedData, k)
  /\ translatedData' # translatedData =>
       LET n == Len(CallsOfRun(run))
           keys == KeysOfBatch(n)
           c == calls'[Len(calls')]
           result == translateText(c.texts, c.resp).result
       IN  /\ Len(calls') = Len(calls) + 1
           /\ Len(result) = Len(keys)
           /\ translatedData'.keys = translatedData.keys \o keys
           /\ \A i \in 1..Len(keys) :
                /\ ~Has(translatedData, keys[i])
                /\ c.texts[i] = ReplaceAll(Get(toTranslate, keys[i]), NL, newlinePlaceholder)
                /\ Get(translatedData', keys[i])
                     = ReplaceAll(result[i], newlinePlaceholder, NL)

\* C16: the reuse of the batch and batchKeys buffers changes no stored value.
\* While translateJSONValues fills and processes batches, a value in the
\* result store is never changed by a later step, and the results of a batch
\* are stored under the keys of that batch, never under a key of an earlier
\* one; this includes a batch of blank values, which translateText returns
\* as the slice it was given.
C16_StoredResultsStable ==
  [][(pc \in {"loop", "call", "callFinal"}) => StoresOnlyOwnBatch]_vars

\* a batch of blank values returned as given, then the buffers filled again
\* with a batch that was translated
C16_Witness ==
  LET cs == CallsOfRun(run)
  IN  /\ pc = "mergeBack"
      /\ batchSize >= 2
      /\ Len(cs) >= 2
      /\ ~callsAPI(cs[1].texts)
      /\ callsAPI(cs[2].texts)
      /\ \A i \in 1..Len(cs[1].keys) :
           Get(translatedData, cs[1].keys[i]) = Get(toTranslate, cs[1].keys[i])
      /\ \A i \in 1..Len(cs[2].keys) :
           Get(translatedData, cs[2].keys[i]) # Get(toTranslate, cs[2].keys[i])

----------------------------------------------------------------------------
(* Nothing to translate *)

\* mergeJSON has returned in this run
PastMerge == pc \in {"loop", "call", "callFinal", "mergeBack", "write", "done"}

\* C17: mergeJSON returns an empty list exactly when every source key has an
\* existing value that differs from the source value (no source key at all
\* included); then translateText is not called in the run, no Translation
\* Call is issued, and the document written is the store mergeJSON returned.
\* For an empty source the merged store and the list are both empty.
C17_NothingToTranslate ==
  PastMerge =>
    /\ Len(untranslatedKeys) = 0
         <=> \A i \in 1..Len(inputJSON.keys) :
               /\ Has(outputJSON, inputJSON.keys[i])
               /\ Get(outputJSON, inputJSON.keys[i]) # Get(inputJSON, inputJSON.keys[i])
    /\ Len(untranslatedKeys) = 0 =>
         /\ pc \in {"write", "done"}
         /\ CallsOfRun(run) = <<>>
         /\ mergedJSON = mergeJSON(inputJSON, outputJSON).merged
         /\ pc = "done" => writes = 1 /\ outputFile = writeJSONFile(mergedJSON)
    /\ Len(inputJSON.keys) = 0 =>
         mergedJSON = NewOrderedMap /\ untranslatedKeys = <<>>

\* a first run over two source keys that both have a differing existing value
C17_Witness ==
  /\ pc = "done" /\ run = "first"
  /\ Len(inputJSON.keys) = 2
  /\ untranslatedKeys = <<>>
  /\ calls = <<>>
  /\ mergedJSON # inputJSON
  /\ outputFile = writeJSONFile(mergedJSON)

\* a run over an empty source document
C17_WitnessEmptySource ==
  /\ pc = "done" /\ run = "first"
  /\ inputFile.exists /\ inputFile.doc = <<>>
  /\ preOutput.exists /\ Len(preOutput.doc) > 0
  /\ outputFile.doc = <<>>

----------------------------------------------------------------------------
(* Acceptance of an answer *)

\* the number of newline characters of a text
NewlineCount(text) == Cardinality(Newlines(text))

\* the call sent m >= 1 values and the Translation Call answered with a text
Answered(c) == callsAPI(c.texts) /\ c.resp.kind = "ok"

\* C18: for a batch with m >= 1 non-blank values sent and an answer text,
\* translateText returns the mismatch error if and only if the number of
\* newlines of the answer is not m - 1, and no other error; an answer with a
\* trailing newline after the m lines is rejected, an answer with m - 1
\* newlines is accepted even when a piece of it is empty.
C18_ResponseAcceptance ==
  \A n \in 1..Len(calls) :
    LET c == calls[n]
        m == Len(nonEmptyTexts(c.texts))
    IN  Answered(c) =>
          /\ m >= 1
          /\ c.err \in {"none", "mismatch"}
          /\ c.err = "mismatch" <=> NewlineCount(c.resp.content) # m - 1
          /\ translateText(c.texts, c.resp).err = c.err

\* an answer of one empty piece accepted for one value sent, then the two
\* lines of the next batch followed by a newline rejected
C18_Witness ==
  \E i, j \in 1..Len(calls) :
    /\ i < j
    /\ Answered(calls[i]) /\ Answered(calls[j])
    /\ Len(nonEmptyTexts(calls[i].texts)) = 1
    /\ calls[i].resp.content = EmptyString
    /\ calls[i].err = "none"
    /\ Len(nonEmptyTexts(calls[j].texts)) = 2
    /\ NewlineCount(calls[j].resp.content) = 2
    /\ calls[j].resp.content[Len(calls[j].resp.content)] = NL
    /\ calls[j].err = "mismatch"

----------------------------------------------------------------------------
(* Identity round-trip of values *)

\* not blank, no whitespace at either end, no placeholder text
Plain(v) ==
  /\ TrimSpace(v) # EmptyString
  /\ v[1] \notin Whitespace /\ v[Len(v)] \notin Whitespace
  /\ ~InSeq(newlinePlaceholder, v)

\* protect, trim, unprotect
ProtectTrimUnprotect(v) ==
  ReplaceAll(cleanTranslation(ReplaceAll(v, NL, newlinePlaceholder)),
             newlinePlaceholder, NL)

\* C19: for every value that is not blank, has no whitespace at either end
\* and does not contain the placeholder text, protecting, trimming and
\* unprotecting gives the value back, and translateJSONValues run with a
\* Translation Call that returns exactly the text it was sent stores the
\* original value under the same key.
C19_IdentityRoundTrip ==
  \A k \in DOMAIN toTranslate.values :
    LET v == Get(toTranslate, k)
    IN  Plain(v) =>
          /\ ProtectTrimUnprotect(v) = v
          /\ (Returned /\ IdentityStub) =>
               Has(translatedData, k) /\ Get(translatedData, k) = v

\* a value with an inner space and one with an inner newline, both sent in
\* one batch and stored as they were
C19_Witness ==
  /\ Returned /\ IdentityStub
  /\ Len(calls) = 1 /\ Len(calls[1].keys) = 2
  /\ \E k1, k2 \in SubmittedKeys(calls[1]) :
       /\ Get(toTranslate, k1) = <<"a", SP, "a">>
       /\ Plain(Get(toTranslate, k2)) /\ k1 # k2
       /\ Get(translatedData, k1) = Get(toTranslate, k1)
       /\ Get(translatedData, k2) = Get(toTranslate, k2)

====
